---- MODULE Spec2Model ----
(***************************************************************************)
(* Model of check_braces.py: a single left-to-right scan of a text file    *)
(* that matches curly braces with a stack of offsets and prints a          *)
(* diagnostic for every extra closer and every unclosed opener.            *)
(*                                                                         *)
(* Offsets are 0-based as in the Python source; a TLA+ sequence is         *)
(* 1-based, so the character at offset i of c is c[i + 1].                 *)
(* Standard output is the sequence out; each element is the text of one    *)
(* print call, itself a sequence of strings (literal pieces of the         *)
(* f-string, decimal digits, characters of the content).                   *)
(***************************************************************************)
EXTENDS Integers, Sequences, FiniteSets

VARIABLES file, pc, content, stack, i, k, out, run, prev

vars == <<file, pc, content, stack, i, k, out, run, prev>>

----------------------------------------------------------------------------
(* Bounds of the model                                                     *)

MaxLen == 5

LongEdge == 2

MaxRuns == 2

----------------------------------------------------------------------------
(* Input domain                                                            *)

Alphabet == {"{", "}", "\n", "a"}

Braces == {"{", "}"}

Strings(S, n) == UNION {[1..m -> S] : m \in 0..n}

SnippetLen == 50

Pad == [j \in 1..SnippetLen |-> "a"]

ShortContents == Strings(Alphabet, MaxLen)

LongContents == {p \o Pad \o s : p \in Strings(Braces, LongEdge), s \in Strings(Braces, LongEdge)}

SampleContent == <<"a", "{", "\n", "b", "}", "}">>

Contents == ShortContents \cup LongContents \cup {SampleContent}

Files ==
    [status : {"ok"}, data : Contents]
        \cup {[status |-> "missing", data |-> <<>>]}
        \cup [status : {"unreadable"}, data : Strings(Braces, 1)]

----------------------------------------------------------------------------
(* Pure helpers, computed as Python computes them                          *)

Min(a, b) == IF a <= b THEN a ELSE b

At(c, j) == c[j + 1]

\* c[a:b] for 0 <= a, 0 <= b: both ends are clamped to len(c)
Slice(c, a, b) ==
    LET lo == Min(a, Len(c))
        hi == Min(b, Len(c))
    IN  IF lo >= hi THEN <<>> ELSE SubSeq(c, lo + 1, hi)

RECURSIVE CountIn(_, _)
CountIn(s, ch) ==
    IF s = <<>> THEN 0
    ELSE (IF Head(s) = ch THEN 1 ELSE 0) + CountIn(Tail(s), ch)

\* c.count(ch, start, end) for a one-character ch
Count(c, ch, start, end) == CountIn(Slice(c, start, end), ch)

Digit(d) == <<"0", "1", "2", "3", "4", "5", "6", "7", "8", "9">>[d + 1]

\* str(n) for n >= 0, as the f-string formats an int
RECURSIVE Decimal(_)
Decimal(n) ==
    IF n < 10 THEN <<Digit(n)>>
    ELSE Decimal(n \div 10) \o <<Digit(n % 10)>>

\* variant: the offset is printed 1-based
ExtraLineOneBased(idx) == <<"Extra closing brace at index ">> \o Decimal(idx + 1)

ExtraLine(idx) == <<"Extra closing brace at index ">> \o Decimal(idx)

UnclosedLine(pos) == <<"Unclosed opening brace at index ">> \o Decimal(pos)

\* variant: the count is not limited to the text before pos
LineNoWholeText(c, pos) == Count(c, "\n", 0, Len(c)) + 1

LineNo(c, pos) == Count(c, "\n", 0, pos) + 1

LineLine(c, pos) == <<"  Line: ">> \o Decimal(LineNo(c, pos))

\* variant: the end of the slice is not relative to pos
SnippetAbsoluteEnd(c, pos) == Slice(c, pos, SnippetLen)

Snippet(c, pos) == Slice(c, pos, pos + SnippetLen)

ContextLine(c, pos) == <<"  Context: ">> \o Snippet(c, pos) \o <<"...">>

\* variant: the offset pushed is 1-based
PushOneBased(s, x) == Append(s, x + 1)

Push(s, x) == Append(s, x)

\* variant: the oldest entry is removed instead of the newest
PopOldest(s) == Tail(s)

\* variant: the matched opener is left on the stack
PopNothing(s) == s

Pop(s) == SubSeq(s, 1, Len(s) - 1)

\* variant: the emptiness test is inverted; "not stack"
IsEmptyInverted(s) == s # <<>>

\* not stack
IsEmpty(s) == s = <<>>

\* variant: the stack is reported newest first
NthFromTop(s, n) == s[Len(s) - n]

\* the element the k-th iteration (k = 0, 1, ...) of "for pos in stack" sees
Nth(s, n) == s[n + 1]

----------------------------------------------------------------------------
(* The program                                                             *)

Init ==
    /\ file \in Files
    /\ pc = "open"
    /\ content = <<>>
    /\ stack = <<>>
    /\ i = 0
    /\ k = 0
    /\ out = <<>>
    /\ run = 1
    /\ prev = <<>>

\* variant: the file is opened in mode 'w+', which truncates it
OpenOkTruncating ==
    /\ pc = "open"
    /\ file.status = "ok"
    /\ file' = [file EXCEPT !.data = <<>>]
    /\ content' = <<>>
    /\ stack' = <<>>
    /\ i' = 0
    /\ pc' = "scan"
    /\ UNCHANGED <<k, out, run, prev>>

\* open(filename, 'r') and f.read() succeed; stack = []
OpenOk ==
    /\ pc = "open"
    /\ file.status = "ok"
    /\ content' = file.data
    /\ stack' = <<>>
    /\ i' = 0
    /\ pc' = "scan"
    /\ UNCHANGED <<file, k, out, run, prev>>

\* variant: the exception is swallowed and the scan runs on empty content
OpenFailSwallowed ==
    /\ pc = "open"
    /\ file.status # "ok"
    /\ content' = <<>>
    /\ stack' = <<>>
    /\ i' = 0
    /\ pc' = "scan"
    /\ UNCHANGED <<file, k, out, run, prev>>

\* open or read raises: the exception leaves check_braces and ends the process
OpenFail ==
    /\ pc = "open"
    /\ file.status # "ok"
    /\ pc' = "failed"
    /\ UNCHANGED <<file, content, stack, i, k, out, run, prev>>

ScanOpener ==
    /\ pc = "scan"
    /\ i < Len(content)
    /\ At(content, i) = "{"
    /\ stack' = Push(stack, i)
    /\ i' = i + 1
    /\ UNCHANGED <<file, pc, content, k, out, run, prev>>

ScanExtraCloser ==
    /\ pc = "scan"
    /\ i < Len(content)
    /\ At(content, i) = "}"
    /\ IsEmpty(stack)
    /\ out' = Append(out, ExtraLine(i))
    /\ i' = i + 1
    /\ UNCHANGED <<file, pc, content, stack, k, run, prev>>

ScanMatchedCloser ==
    /\ pc = "scan"
    /\ i < Len(content)
    /\ At(content, i) = "}"
    /\ ~IsEmpty(stack)
    /\ stack' = Pop(stack)
    /\ i' = i + 1
    /\ UNCHANGED <<file, pc, content, k, out, run, prev>>

ScanOther ==
    /\ pc = "scan"
    /\ i < Len(content)
    /\ At(content, i) \notin {"{", "}"}
    /\ i' = i + 1
    /\ UNCHANGED <<file, pc, content, stack, k, out, run, prev>>

\* enumerate(content) is exhausted: the report loop starts
ScanDone ==
    /\ pc = "scan"
    /\ i = Len(content)
    /\ pc' = "report"
    /\ k' = 0
    /\ UNCHANGED <<file, content, stack, i, out, run, prev>>

\* one iteration of "for pos in stack": three print calls
Report ==
    /\ pc = "report"
    /\ k < Len(stack)
    /\ LET pos == Nth(stack, k)
       IN  out' = out \o <<UnclosedLine(pos), LineLine(content, pos), ContextLine(content, pos)>>
    /\ k' = k + 1
    /\ UNCHANGED <<file, pc, content, stack, i, run, prev>>

\* the stack is exhausted: check_braces returns and the process exits
ReportDone ==
    /\ pc = "report"
    /\ k = Len(stack)
    /\ pc' = "done"
    /\ UNCHANGED <<file, content, stack, i, k, out, run, prev>>

\* the program is invoked again on the same path: a new process, whose
\* locals are unbound again; prev remembers what the last run printed
Rerun ==
    /\ pc \in {"done", "failed"}
    /\ run < MaxRuns
    /\ run' = run + 1
    /\ prev' = out
    /\ pc' = "open"
    /\ content' = <<>>
    /\ stack' = <<>>
    /\ i' = 0
    /\ k' = 0
    /\ out' = <<>>
    /\ UNCHANGED file

Next ==
    \/ OpenOk
    \/ OpenFail
    \/ ScanOpener
    \/ ScanExtraCloser
    \/ ScanMatchedCloser
    \/ ScanOther
    \/ ScanDone
    \/ Report
    \/ ReportDone
    \/ Rerun

Spec == Init /\ [][Next]_vars

\* the program is sequential: a process that can take a step takes it
FairSpec == Spec /\ WF_vars(Next)

TypeOK ==
    /\ file \in Files
    /\ pc \in {"open", "scan", "report", "done", "failed"}
    /\ i \in 0..Len(content)
    /\ k \in 0..Len(stack)
    /\ run \in 1..MaxRuns

----------------------------------------------------------------------------
(* Reading the printed text back                                           *)

DigitVal(d) == CHOOSE v \in 0..9 : Digit(v) = d

RECURSIVE ParseNat(_)
ParseNat(ds) ==
    IF Len(ds) = 1 THEN DigitVal(ds[1])
    ELSE 10 * ParseNat(SubSeq(ds, 1, Len(ds) - 1)) + DigitVal(ds[Len(ds)])

IsExtra(l) == l[1] = "Extra closing brace at index "

IsUnclosed(l) == l[1] = "Unclosed opening brace at index "

IsLineNo(l) == l[1] = "  Line: "

IsContext(l) == l[1] = "  Context: "

Arg(l) == ParseNat(Tail(l))

ArgsOf(lines) == [x \in 1..Len(lines) |-> Arg(lines[x])]

ExtraOffsets(o) == ArgsOf(SelectSeq(o, IsExtra))

UnclosedOffsets(o) == ArgsOf(SelectSeq(o, IsUnclosed))

Range(s) == {s[x] : x \in 1..Len(s)}

Ascending(s) == \A x \in 1..Len(s) - 1 : s[x] < s[x + 1]

\* s lists exactly the members of S, smallest first
Enumerates(s, S) == Ascending(s) /\ Range(s) = S /\ Len(s) = Cardinality(S)

Offsets(c) == 0..Len(c) - 1

OffsetsOf(c, ch) == {x \in Offsets(c) : At(c, x) = ch}

NumIn(c, ch, a, b) == Cardinality({x \in a..b : At(c, x) = ch})

\* the openers at offsets < n that no closer at an offset < n has matched:
\* between such an opener and n, closers never outnumber openers
UnmatchedAt(c, n) ==
    {j \in 0..n - 1 :
        /\ At(c, j) = "{"
        /\ \A m \in j + 1..n - 1 :
              At(c, m) = "}" => NumIn(c, "}", j + 1, m) <= NumIn(c, "{", j + 1, m)}

\* the closers at offsets < n that were scanned with no unmatched opener
UnmatchedClosers(c, n) == {x \in 0..n - 1 : At(c, x) = "}" /\ UnmatchedAt(c, x) = {}}

Balanced(c) == UnmatchedAt(c, Len(c)) = {} /\ UnmatchedClosers(c, Len(c)) = {}

Running == pc \in {"scan", "report", "done"}

----------------------------------------------------------------------------
\* C1: while and after scanning, the stack lists, oldest first, exactly the
\* offsets below i of the openers that no closer below i has matched.
StackInvariant == Running => Enumerates(stack, UnmatchedAt(content, i))

StackInvariantWitness ==
    /\ pc = "scan"
    /\ Len(stack) >= 2
    /\ \E j \in 0..i - 1 : At(content, j) = "{" /\ j \notin Range(stack)

BalancedPrintsNothing ==
    /\ (Running /\ Balanced(content)) => out = <<>>
    /\ (file.status = "ok" /\ Balanced(file.data)) => pc # "failed"

\* C2: content with correctly nested braces in equal numbers (the empty
\* content and brace-free content included) never prints anything, never
\* reaches the failure state, and its scan runs to completion.
BalancedCompletes ==
    /\ []BalancedPrintsNothing
    /\ (pc = "scan" /\ Balanced(content)) ~> (pc = "done" /\ out = <<>>)

BalancedWitness ==
    /\ pc = "done"
    /\ Balanced(content)
    /\ Cardinality(OffsetsOf(content, "{")) >= 2
    /\ out = <<>>

\* C3: extra-closer lines are printed during the scan, one per step, in
\* strictly ascending offset order; unclosed-opener blocks are printed only
\* once the last character has been scanned, in strictly ascending offset
\* order; no extra-closer line follows an unclosed-opener block.
OutputOrder ==
    /\ Ascending(ExtraOffsets(out))
    /\ Ascending(UnclosedOffsets(out))
    /\ \A x, y \in 1..Len(out) : (x < y /\ ~IsExtra(out[x])) => ~IsExtra(out[y])
    /\ (\E x \in 1..Len(out) : ~IsExtra(out[x])) =>
          (pc \in {"report", "done"} /\ i = Len(content))

EmittedInPhase ==
    (out' # out /\ run' = run) =>
        IF pc = "scan"
        THEN /\ Len(out') = Len(out) + 1
             /\ SubSeq(out', 1, Len(out)) = out
             /\ IsExtra(out'[Len(out')])
             /\ Arg(out'[Len(out')]) = i
        ELSE /\ pc = "report"
             /\ i = Len(content)
             /\ Len(out') = Len(out) + 3
             /\ SubSeq(out', 1, Len(out)) = out
             /\ IsUnclosed(out'[Len(out) + 1])
             /\ IsLineNo(out'[Len(out) + 2])
             /\ IsContext(out'[Len(out) + 3])

OutputOrdering == []OutputOrder /\ [][EmittedInPhase]_vars

OutputOrderingWitness ==
    /\ pc = "done"
    /\ Len(ExtraOffsets(out)) >= 2
    /\ Len(UnclosedOffsets(out)) >= 2

\* every closer of c is scanned while no opener is unmatched
ClosersFirst(c) == \A x \in OffsetsOf(c, "}") : UnmatchedAt(c, x) = {}

ReportedIffEmpty ==
    (pc = "scan" /\ i < Len(content) /\ At(content, i) = "}") =>
        IF stack = <<>>
        THEN /\ Len(out') = Len(out) + 1
             /\ SubSeq(out', 1, Len(out)) = out
             /\ IsExtra(out'[Len(out')])
             /\ Arg(out'[Len(out')]) = i
        ELSE out' = out

ExtraClosersState ==
    /\ Running => Enumerates(ExtraOffsets(out), UnmatchedClosers(content, i))
    /\ (pc = "done" /\ ClosersFirst(content)) =>
          /\ Enumerates(ExtraOffsets(out), OffsetsOf(content, "}"))
          /\ Enumerates(UnclosedOffsets(out), OffsetsOf(content, "{"))

\* C4 (as amended): for content in which every closer is scanned while no
\* opener is unmatched, exactly one extra-closer line is printed per closer,
\* carrying that closer's own offset, in ascending order, and the
\* unclosed-opener blocks printed are exactly those of the openers of the
\* content (none when it has no opener); in general a closer at offset i is
\* reported if and only if the stack is empty when i is scanned.
ExtraClosers == []ExtraClosersState /\ [][ReportedIffEmpty]_vars

ExtraClosersWitness ==
    /\ pc = "done"
    /\ ClosersFirst(content)
    /\ Cardinality(OffsetsOf(content, "}")) >= 2
    /\ OffsetsOf(content, "{") # {}

\* C4 as stated: such content prints one extra-closer line per closer and
\* no unclosed-opener block at all.
ExtraClosersOriginal ==
    (pc = "done" /\ ClosersFirst(content)) =>
        /\ Enumerates(ExtraOffsets(out), OffsetsOf(content, "}"))
        /\ UnclosedOffsets(out) = <<>>

\* C5 (as amended): in the content a, {, newline, b, }, } the first closer
\* is at offset 4 and matches the opener at offset 1, the second closer is
\* at offset 5 and is scanned with an empty stack, and the only output is
\* the line "Extra closing brace at index 5".
SampleRun ==
    content = SampleContent =>
        /\ OffsetsOf(content, "}") = {4, 5}
        /\ OffsetsOf(content, "{") = {1}
        /\ (pc = "scan" /\ i = 4) => (stack = <<1>> /\ out = <<>>)
        /\ (pc = "scan" /\ i = 5) => (stack = <<>> /\ out = <<>>)
        /\ pc = "done" => out = << <<"Extra closing brace at index ", "5">> >>

SampleRunWitness ==
    /\ content = SampleContent
    /\ pc = "done"
    /\ run = 1

\* C5 as stated: the closers are at offsets 3 and 4 and the only output is
\* the line "Extra closing brace at index 4".
SampleRunOriginal ==
    (content = SampleContent /\ pc = "done") =>
        /\ OffsetsOf(content, "}") = {3, 4}
        /\ out = << <<"Extra closing brace at index ", "4">> >>

\* C6: the line number printed for an unclosed opener at offset pos is the
\* number of newlines at offsets below pos, plus one, hence at least 1.
LineNumbers ==
    \A x \in 1..Len(out) :
        IsUnclosed(out[x]) =>
            /\ x + 1 <= Len(out)
            /\ IsLineNo(out[x + 1])
            /\ Arg(out[x + 1]) = NumIn(content, "\n", 0, Arg(out[x]) - 1) + 1
            /\ Arg(out[x + 1]) >= 1

LineNumbersWitness ==
    /\ pc = "done"
    /\ \E x \in 1..Len(out) :
          /\ IsUnclosed(out[x])
          /\ NumIn(content, "\n", 0, Arg(out[x]) - 1) = 3
          /\ out[x + 1] = <<"  Line: ", "4">>

\* C7: the context printed for an unclosed opener at offset pos of a content
\* of length n is the characters at offsets pos .. min(pos + 50, n) - 1: it
\* starts with that opener, is min(50, n - pos) long, and is always followed
\* by "..."; for three openers the contexts are the three suffixes.
Snippets ==
    /\ \A x \in 1..Len(out) :
          IsUnclosed(out[x]) =>
              /\ x + 2 <= Len(out)
              /\ LET l == out[x + 2]
                     pos == Arg(out[x])
                     snip == SubSeq(l, 2, Len(l) - 1)
                 IN  /\ IsContext(l)
                     /\ l[Len(l)] = "..."
                     /\ Len(snip) = Min(50, Len(content) - pos)
                     /\ \A q \in 1..Len(snip) : snip[q] = At(content, pos + q - 1)
                     /\ snip[1] = "{"
    /\ (content = <<"{", "{", "{">> /\ pc = "done") =>
          out = << <<"Unclosed opening brace at index ", "0">>,
                   <<"  Line: ", "1">>,
                   <<"  Context: ", "{", "{", "{", "...">>,
                   <<"Unclosed opening brace at index ", "1">>,
                   <<"  Line: ", "1">>,
                   <<"  Context: ", "{", "{", "...">>,
                   <<"Unclosed opening brace at index ", "2">>,
                   <<"  Line: ", "1">>,
                   <<"  Context: ", "{", "...">> >>

SnippetsWitness ==
    /\ pc = "done"
    /\ \E x, y \in 1..Len(out) :
          /\ IsUnclosed(out[x])
          /\ IsUnclosed(out[y])
          /\ Len(content) - Arg(out[x]) > 50
          /\ Len(out[x + 2]) = 52
          /\ Len(content) - Arg(out[y]) < 50
          /\ Len(out[y + 2]) = Len(content) - Arg(out[y]) + 2

\* C8: a file that is missing or unreadable ends the run in the failure
\* state before anything is scanned or printed, and nothing else does: a
\* readable file never fails, whatever its braces.
FileFailure ==
    /\ (file.status # "ok" /\ pc # "open") => pc = "failed"
    /\ pc = "failed" =>
          /\ file.status # "ok"
          /\ out = <<>>
          /\ i = 0
          /\ stack = <<>>
          /\ content = <<>>

FileFailureWitness ==
    /\ pc = "failed"
    /\ file.status = "unreadable"
    /\ file.data # <<>>

FileKept == file' = file

ContentKept == pc \in {"scan", "report"} => content' = content

CountingBalance ==
    pc = "done" =>
        LET U == UnclosedOffsets(out)
            E == ExtraOffsets(out)
        IN  /\ Len(U) - Len(E) =
                  Cardinality(OffsetsOf(content, "{")) - Cardinality(OffsetsOf(content, "}"))
            /\ Cardinality(Range(U)) = Len(U)
            /\ Cardinality(Range(E)) = Len(E)
            /\ Range(U) \subseteq OffsetsOf(content, "{")
            /\ Range(E) \subseteq OffsetsOf(content, "}")

CountingBalanceWitness ==
    /\ pc = "done"
    /\ UnclosedOffsets(out) # <<>>
    /\ ExtraOffsets(out) # <<>>
    /\ Len(UnclosedOffsets(out)) + Len(ExtraOffsets(out)) + 2
          <= Cardinality(OffsetsOf(content, "{")) + Cardinality(OffsetsOf(content, "}"))

====
